---------------------------- MODULE Spec2Model ----------------------------
(***************************************************************************)
(* A model of maltmill's formula updater (formula.go: newFormula,          *)
(* expandStr, formula.update, updateContent, replaceOne) and of its        *)
(* formula creator (creator.go: creator.run).                              *)
(*                                                                         *)
(* Text is a sequence of symbols.  A symbol is one character (a digit, a   *)
(* quote, a blank, a newline) or an indivisible piece of text that no      *)
(* pattern of the program looks into ("version", "sha256", "darwin").      *)
(* The regular expressions of the program are modelled by what they match  *)
(* on such sequences: line anchors, greedy ".*", "\s" that spans lines.    *)
(***************************************************************************)
EXTENDS Integers, Sequences, FiniteSets, TLC

\* ------------------------------------------------------------------ bounds
\* Lines of a formula file.
MaxLines == 4
\* Assets a release lists.
MaxAssets == 2
\* Words of a slug, each two of them with "/" or "@" between.
MaxWords == 4

\* ----------------------------------------------------------------- helpers
Min(S) == CHOOSE m \in S : \A n \in S : m <= n
Max(S) == CHOOSE m \in S : \A n \in S : m >= n

\* The element of a set of one element.  Only({e(x) : x \in {v}}) is e(v),
\* with v computed once.
Only(S) == CHOOSE x \in S : TRUE

\* The sequences over S of length at most n.
SeqsUpTo(S, n) == UNION {[1..k -> S] : k \in 0..n}

\* str[a..b], empty when b < a.
Sub(str, a, b) == IF b < a THEN <<>> ELSE SubSeq(str, a, b)

RECURSIVE Flatten(_)
Flatten(ss) == IF ss = <<>> THEN <<>> ELSE Head(ss) \o Flatten(Tail(ss))

\* strings.HasSuffix
HasSuffix(s, suf) ==
    /\ Len(suf) <= Len(s)
    /\ Sub(s, Len(s) - Len(suf) + 1, Len(s)) = suf

\* strings.Contains, for a substring that is one symbol.
Contains(s, sym) == \E i \in 1..Len(s) : s[i] = sym

\* ------------------------------------------------------- regular expressions
IsWS(t) == t \in {" ", "\n"}
IsQuote(t) == t \in {"'", "\""}

\* The patterns of formula.go that capture an assignment:
\*   kw       the keyword
\*   anchored the pattern starts with (?m)^
\*   eq       an "=" stands between the keyword and the opening quote
nameReg == [kw |-> "name", anchored |-> TRUE, eq |-> TRUE]
verReg == [kw |-> "version", anchored |-> TRUE, eq |-> FALSE]
urlReg == [kw |-> "url", anchored |-> TRUE, eq |-> FALSE]
shaReg == [kw |-> "sha256", anchored |-> FALSE, eq |-> FALSE]

\* The first position >= i of str that holds no white space (Len+1 if none).
SkipWS(str, i) ==
    Min({j \in i..Len(str) : ~IsWS(str[j])} \cup {Len(str) + 1})

\* The start of the run of white space that ends at position k-1.
RunStart(str, k) ==
    Min({r \in 1..k : \A j \in r..(k - 1) : IsWS(str[j])})

\* Where a match whose keyword stands at k may start, searching from `from`:
\* \s+ needs white space before the keyword; ^ needs the start of the text
\* or of a line.
Starts(reg, str, k, from) ==
    LET r == RunStart(str, k)
    IN  {s \in r..(k - 1) :
            /\ s >= from
            /\ reg.anchored => (s = 1 \/ str[s - 1] = "\n")}

\* The position of the opening quote after the keyword at k, 0 if none.
OpenQuote(reg, str, k) ==
    LET a == SkipWS(str, k + 1)
        b == IF reg.eq
             THEN IF a <= Len(str) /\ str[a] = "="
                  THEN SkipWS(str, a + 1) ELSE Len(str) + 1
             ELSE a
    IN  IF b <= Len(str) /\ IsQuote(str[b]) THEN b ELSE 0

\* The position of the closing quote: ".*" is greedy and stays on the line,
\* so it is the last quote of the line of the opening quote q1; 0 if none.
CloseQuote(str, q1) ==
    LET e == Min({j \in (q1 + 1)..Len(str) : str[j] = "\n"} \cup {Len(str) + 1})
        qs == {j \in (q1 + 1)..(e - 1) : IsQuote(str[j])}
    IN  IF qs = {} THEN 0 ELSE Max(qs)

\* Whether reg matches with its keyword at position k, starting at or after from.
MatchAt(reg, str, k, from) ==
    /\ str[k] = reg.kw
    /\ Starts(reg, str, k, from) # {}
    /\ OpenQuote(reg, str, k) # 0
    /\ CloseQuote(str, OpenQuote(reg, str, k)) # 0

NoMatch == [ok |-> FALSE, s |-> 0, q1 |-> 0, q3 |-> 0]

\* The leftmost match of reg in str at or after from:
\* s..q1 is group 1, q1+1..q3-1 is group 2, q3 is group 3.
FindFrom(reg, str, from) ==
    LET ks == {k \in 1..Len(str) : MatchAt(reg, str, k, from)}
    IN  IF ks = {} THEN NoMatch
        ELSE LET k == Min(ks)
                 q1 == OpenQuote(reg, str, k)
             IN  [ok |-> TRUE, s |-> Min(Starts(reg, str, k, from)),
                  q1 |-> q1, q3 |-> CloseQuote(str, q1)]

\* regexp.FindStringSubmatch: <<>> when nothing matches, else <<m0, m1, m2, m3>>.
FindStringSubmatch(reg, str) ==
    Only({ IF ~m.ok THEN <<>>
           ELSE << Sub(str, m.s, m.q3), Sub(str, m.s, m.q1),
                   Sub(str, m.q1 + 1, m.q3 - 1), Sub(str, m.q3, m.q3) >>
           : m \in {FindFrom(reg, str, 1)} })

\* The number of matches regexp would report (FindAllString), from `from`.
RECURSIVE CountFrom(_, _, _)
CountFrom(reg, str, from) ==
    Only({ IF ~m.ok THEN 0 ELSE 1 + CountFrom(reg, str, m.q3 + 1)
           : m \in {FindFrom(reg, str, from)} })

\* regexp.Expand of a replacement: ${n} is group n (empty when the pattern
\* has no such group), a reference to a name no group has is empty.
IsRef(t) == t \in {"${1}", "${2}", "${3}", "$x"}

RECURSIVE Expand(_, _)
Expand(repl, groups) ==
    IF repl = <<>> THEN <<>>
    ELSE LET t == Head(repl)
             n == CASE t = "${1}" -> 1 [] t = "${2}" -> 2 [] t = "${3}" -> 3
                    [] OTHER -> 0
             e == IF ~IsRef(t) THEN <<t>>
                  ELSE IF n >= 1 /\ n <= Len(groups) THEN groups[n] ELSE <<>>
         IN  e \o Expand(Tail(repl), groups)

\* regexp.ReplaceAllString for the assignment patterns, from `from`.
RECURSIVE ReplaceAllFrom(_, _, _, _)
ReplaceAllFrom(reg, str, repl, from) ==
    Only({ IF ~m.ok THEN Sub(str, from, Len(str))
           ELSE Sub(str, from, m.s - 1)
                \o Expand(repl, << Sub(str, m.s, m.q1),
                                   Sub(str, m.q1 + 1, m.q3 - 1),
                                   Sub(str, m.q3, m.q3) >>)
                \o ReplaceAllFrom(reg, str, repl, m.q3 + 1)
           : m \in {FindFrom(reg, str, from)} })

ReplaceAllString(reg, str, repl) == ReplaceAllFrom(reg, str, repl, 1)

\* A replacement that rewrites every match.
replaceEvery(reg, str, replace) == ReplaceAllString(reg, str, replace)
\* replaceOne: ReplaceAllStringFunc calls the closure on each match in
\* order; the closure rewrites the first match, taken alone, with
\* ReplaceAllString, and returns every later match as it is.
replaceOne(reg, str, replace) ==
    Only({ IF ~m.ok THEN str
           ELSE Sub(str, 1, m.s - 1)
                \o Only({ReplaceAllString(reg, match, replace)
                          : match \in {Sub(str, m.s, m.q3)}})
                \o Sub(str, m.q3 + 1, Len(str))
           : m \in {FindFrom(reg, str, 1)} })

\* fmt.Sprintf(`${1}%s${3}`, v)
Replacement(v) == <<"${1}">> \o v \o <<"${3}">>


\* ------------------------------------------------------ semantic versions
\* github.com/Masterminds/semver, as formula.update and creator.run use it.
IsDigit(t) == t \in {"0", "1", "2", "3", "4", "5", "6", "7", "8", "9"}

DigitVal(t) ==
    CASE t = "0" -> 0 [] t = "1" -> 1 [] t = "2" -> 2 [] t = "3" -> 3
      [] t = "4" -> 4 [] t = "5" -> 5 [] t = "6" -> 6 [] t = "7" -> 7
      [] t = "8" -> 8 [] t = "9" -> 9

\* The byte order of the characters a version may hold.
Ord(t) ==
    CASE t = "-" -> 45 [] IsDigit(t) -> 48 + DigitVal(t)
      [] t = "a" -> 97 [] t = "b" -> 98 [] t = "c" -> 99
      [] t = "r" -> 114 [] t = "v" -> 118

\* [0-9A-Za-z\-]
IsIdentChar(t) == IsDigit(t) \/ t \in {"-", "a", "b", "c", "r", "v"}

RECURSIVE NumVal(_)
NumVal(ds) ==
    IF ds = <<>> THEN 0
    ELSE 10 * NumVal(Sub(ds, 1, Len(ds) - 1)) + DigitVal(ds[Len(ds)])

IsIdentOrDot(t) == IsIdentChar(t) \/ t = "."

\* The position after the longest run of digits from i.
DigitsEnd(s, i) ==
    Min({j \in i..Len(s) : ~IsDigit(s[j])} \cup {Len(s) + 1})

\* The position after the longest run from i of [0-9A-Za-z\-.].
IdentsEnd(s, i) ==
    Min({j \in i..Len(s) : ~IsIdentOrDot(s[j])} \cup {Len(s) + 1})

\* [0-9A-Za-z\-]+(\.[0-9A-Za-z\-]+)*
IsIdentList(p) ==
    /\ p # <<>>
    /\ p[1] # "." /\ p[Len(p)] # "."
    /\ \A j \in 1..(Len(p) - 1) : ~(p[j] = "." /\ p[j + 1] = ".")

BadVersion == [ok |-> FALSE, major |-> 0, minor |-> 0, patch |-> 0,
               pre |-> <<>>, meta |-> <<>>]

\* semver.NewVersion: v?MAJOR(.MINOR)?(.PATCH)?(-PRE)?(+META)?, the whole
\* string; a missing minor or patch is 0.
NewVersion(s) ==
    LET i0 == IF Len(s) >= 1 /\ s[1] = "v" THEN 2 ELSE 1
        i1 == DigitsEnd(s, i0)
        hasMin == i1 + 1 <= Len(s) /\ s[i1] = "." /\ IsDigit(s[i1 + 1])
        i2 == IF hasMin THEN DigitsEnd(s, i1 + 1) ELSE i1
        hasPat == hasMin /\ i2 + 1 <= Len(s) /\ s[i2] = "." /\ IsDigit(s[i2 + 1])
        i3 == IF hasPat THEN DigitsEnd(s, i2 + 1) ELSE i2
        hasPre == i3 <= Len(s) /\ s[i3] = "-"
        i4 == IF hasPre THEN IdentsEnd(s, i3 + 1) ELSE i3
        hasMeta == i4 <= Len(s) /\ s[i4] = "+"
        i5 == IF hasMeta THEN IdentsEnd(s, i4 + 1) ELSE i4
        pre == IF hasPre THEN Sub(s, i3 + 1, i4 - 1) ELSE <<>>
        meta == IF hasMeta THEN Sub(s, i4 + 1, i5 - 1) ELSE <<>>
    IN  IF /\ i1 > i0
           /\ hasPre => IsIdentList(pre)
           /\ hasMeta => IsIdentList(meta)
           /\ i5 = Len(s) + 1
        THEN [ok |-> TRUE, major |-> NumVal(Sub(s, i0, i1 - 1)),
              minor |-> IF hasMin THEN NumVal(Sub(s, i1 + 1, i2 - 1)) ELSE 0,
              patch |-> IF hasPat THEN NumVal(Sub(s, i2 + 1, i3 - 1)) ELSE 0,
              pre |-> pre, meta |-> meta]
        ELSE BadVersion

\* Go's string order (bytewise): -1, 0 or 1.
RECURSIVE StrCmp(_, _)
StrCmp(a, b) ==
    IF a = <<>> THEN (IF b = <<>> THEN 0 ELSE -1)
    ELSE IF b = <<>> THEN 1
    ELSE IF Ord(Head(a)) < Ord(Head(b)) THEN -1
    ELSE IF Ord(Head(a)) > Ord(Head(b)) THEN 1
    ELSE StrCmp(Tail(a), Tail(b))

\* strconv.ParseInt succeeds: digits, after an optional sign.
IsInt(p) ==
    LET d == IF p # <<>> /\ p[1] = "-" THEN Tail(p) ELSE p
    IN  d # <<>> /\ \A j \in 1..Len(d) : IsDigit(d[j])

IntVal(p) == IF p[1] = "-" THEN 0 - NumVal(Tail(p)) ELSE NumVal(p)

\* semver's comparePrePart
comparePrePart(s, o) ==
    IF s = o THEN 0
    ELSE IF s = <<>> THEN -1
    ELSE IF o = <<>> THEN 1
    ELSE IF ~IsInt(o) /\ ~IsInt(s) THEN (IF StrCmp(s, o) > 0 THEN 1 ELSE -1)
    ELSE IF ~IsInt(o) THEN -1
    ELSE IF ~IsInt(s) THEN 1
    ELSE IF IntVal(s) > IntVal(o) THEN 1 ELSE -1

\* strings.Split(p, "."), for a non-empty p
RECURSIVE SplitDot(_)
SplitDot(p) ==
    LET d == Min({j \in 1..Len(p) : p[j] = "."} \cup {Len(p) + 1})
    IN  IF d > Len(p) THEN <<p>>
        ELSE <<Sub(p, 1, d - 1)>> \o SplitDot(Sub(p, d + 1, Len(p)))

RECURSIVE comparePartsFrom(_, _, _)
comparePartsFrom(sp, op, i) ==
    IF i > Len(sp) /\ i > Len(op) THEN 0
    ELSE LET d == comparePrePart(IF i <= Len(sp) THEN sp[i] ELSE <<>>,
                                 IF i <= Len(op) THEN op[i] ELSE <<>>)
         IN  IF d # 0 THEN d ELSE comparePartsFrom(sp, op, i + 1)

\* semver's comparePrerelease
comparePrerelease(v, o) == comparePartsFrom(SplitDot(v), SplitDot(o), 1)

compareSegment(v, o) == IF v < o THEN -1 ELSE IF v > o THEN 1 ELSE 0

\* A comparison that puts a release below its own pre-releases.
ComparePreAbove(v, o) ==
    IF compareSegment(v.major, o.major) # 0 THEN compareSegment(v.major, o.major)
    ELSE IF compareSegment(v.minor, o.minor) # 0 THEN compareSegment(v.minor, o.minor)
    ELSE IF compareSegment(v.patch, o.patch) # 0 THEN compareSegment(v.patch, o.patch)
    ELSE IF v.pre = <<>> /\ o.pre = <<>> THEN 0
    ELSE IF v.pre = <<>> THEN -1
    ELSE IF o.pre = <<>> THEN 1
    ELSE comparePrerelease(v.pre, o.pre)
\* Version.Compare: the build metadata takes no part.
Compare(v, o) ==
    IF compareSegment(v.major, o.major) # 0 THEN compareSegment(v.major, o.major)
    ELSE IF compareSegment(v.minor, o.minor) # 0 THEN compareSegment(v.minor, o.minor)
    ELSE IF compareSegment(v.patch, o.patch) # 0 THEN compareSegment(v.patch, o.patch)
    ELSE IF v.pre = <<>> /\ o.pre = <<>> THEN 0
    ELSE IF v.pre = <<>> THEN 1
    ELSE IF o.pre = <<>> THEN -1
    ELSE comparePrerelease(v.pre, o.pre)

\* Version.LessThan
LessThan(v, o) == Compare(v, o) < 0

\* fmt.Sprintf("%d", n)
RECURSIVE NumStr(_)
NumStr(n) ==
    LET d == <<"0", "1", "2", "3", "4", "5", "6", "7", "8", "9">>[(n % 10) + 1]
    IN  IF n < 10 THEN <<d>> ELSE NumStr(n \div 10) \o <<d>>

\* fmt.Sprintf("%d.%d.%d", ver.Major(), ver.Minor(), ver.Patch())
VerString(ver) ==
    NumStr(ver.major) \o <<".">> \o NumStr(ver.minor) \o <<".">> \o NumStr(ver.patch)

\* ---------------------------------------------------------------- URLs
\* path.Base of a URL that does not end in "/": what follows the last "/".
Base(u) ==
    LET l == Max({j \in 1..Len(u) : u[j] = "/"} \cup {0})
    IN  Sub(u, l + 1, Len(u))

\* path.Ext: from the last "." of the final element, empty if it has none.
Ext(u) ==
    LET b == Base(u)
        ds == {j \in 1..Len(b) : b[j] = "."}
    IN  IF ds = {} THEN <<>> ELSE Sub(b, Max(ds), Len(b))

\* parseURLReg: ^https://[^/]*github.com/([^/]+)/([^/]+)
\* <<>> when the URL does not match, else <<owner, repo>>.
ParseURL(u) ==
    LET sl == {j \in 2..Len(u) : u[j] = "/"}
        f == IF sl = {} THEN 0 ELSE Min(sl)
        g == Min({j \in (f + 1)..Len(u) : u[j] = "/"} \cup {Len(u) + 1})
        h == Min({j \in (g + 1)..Len(u) : u[j] = "/"} \cup {Len(u) + 1})
    IN  IF /\ Len(u) >= 1 /\ u[1] = "https://"
           /\ f >= 3 /\ u[f - 1] = "github.com"
           /\ g > f + 1 /\ g <= Len(u)
           /\ h > g + 1
        THEN <<Sub(u, f + 1, g - 1), Sub(u, g + 1, h - 1)>>
        ELSE <<>>

\* --------------------------------------------------------------- expandStr
\* A replacement of the first occurrence of the placeholder only.
RECURSIVE ReplacePlaceholderOnce(_, _, _)
ReplacePlaceholderOnce(str, k, v) ==
    IF str = <<>> THEN <<>>
    ELSE IF Head(str) = k THEN Expand(v, <<>>) \o Tail(str)
    ELSE <<Head(str)>> \o ReplacePlaceholderOnce(Tail(str), k, v)
\* regexp.ReplaceAllString of the literal pattern #{k}: the pattern has no
\* groups, and the value is a replacement that regexp expands.
RECURSIVE ReplacePlaceholder(_, _, _)
ReplacePlaceholder(str, k, v) ==
    IF str = <<>> THEN <<>>
    ELSE (IF Head(str) = k THEN Expand(v, <<>>) ELSE <<Head(str)>>)
         \o ReplacePlaceholder(Tail(str), k, v)

\* expandStr ranges over a Go map of two keys: the order of the two
\* replacements is not fixed, nameFirst is the order a run takes.
expandStr(str, name, version, nameFirst) ==
    IF nameFirst
    THEN Only({ReplacePlaceholder(s1, "#{version}", version)
               : s1 \in {ReplacePlaceholder(str, "#{name}", name)}})
    ELSE Only({ReplacePlaceholder(s1, "#{name}", name)
               : s1 \in {ReplacePlaceholder(str, "#{version}", version)}})

\* ---------------------------------------------------------------- formula
NoFormula == [content |-> <<>>, urlTmpl |-> <<>>, isURLTmpl |-> FALSE,
              name |-> <<>>, version |-> <<>>, url |-> <<>>, sha256 |-> <<>>,
              owner |-> <<>>, repo |-> <<>>]

LoadError(e) == [err |-> e, fo |-> NoFormula]

\* A load that tests the version match where it should test the checksum
\* match, and reads an absent checksum as empty.
newFormulaUnchecked(b, nameFirst) ==
    Only({ IF Len(vm) < 4 THEN LoadError("no version detected")
           ELSE IF Len(um) < 4 THEN LoadError("no url detected")
           ELSE Only({ Only({
             Only({ IF Len(pm) < 2 THEN LoadError("invalid url format")
                    ELSE [err |-> "nil",
                          fo |-> [content |-> b, urlTmpl |-> um[3],
                                  isURLTmpl |-> Contains(um[3], "#{version}"),
                                  name |-> name, version |-> vm[3], url |-> url,
                                  sha256 |-> IF Len(sm) < 4 THEN <<>> ELSE sm[3],
                                  owner |-> pm[1], repo |-> pm[2]]]
                    : pm \in {ParseURL(url)} })
             : url \in {IF Contains(um[3], "#{version}")
                        THEN expandStr(um[3], name, vm[3], nameFirst)
                        ELSE um[3]} })
             : name \in {IF Len(nm) > 1 THEN nm[3] ELSE <<>>} })
           : nm \in {FindStringSubmatch(nameReg, b)},
             vm \in {FindStringSubmatch(verReg, b)},
             sm \in {FindStringSubmatch(shaReg, b)},
             um \in {FindStringSubmatch(urlReg, b)} })
\* newFormula on the content of the file: [err, fo].
newFormula(b, nameFirst) ==
    Only({ IF Len(vm) < 4 THEN LoadError("no version detected")
           ELSE IF Len(sm) < 4 THEN LoadError("no sha256 detected")
           ELSE IF Len(um) < 4 THEN LoadError("no url detected")
           ELSE Only({ Only({
             Only({ IF Len(pm) < 2 THEN LoadError("invalid url format")
                    ELSE [err |-> "nil",
                          fo |-> [content |-> b, urlTmpl |-> um[3],
                                  isURLTmpl |-> Contains(um[3], "#{version}"),
                                  name |-> name, version |-> vm[3], url |-> url,
                                  sha256 |-> sm[3], owner |-> pm[1],
                                  repo |-> pm[2]]]
                    : pm \in {ParseURL(url)} })
             : url \in {IF Contains(um[3], "#{version}")
                        THEN expandStr(um[3], name, vm[3], nameFirst)
                        ELSE um[3]} })
             : name \in {IF Len(nm) > 1 THEN nm[3] ELSE <<>>} })
           : nm \in {FindStringSubmatch(nameReg, b)},
             vm \in {FindStringSubmatch(verReg, b)},
             sm \in {FindStringSubmatch(shaReg, b)},
             um \in {FindStringSubmatch(urlReg, b)} })

\* ---------------------------------------------------------- formula.update
\* A release of the hosting service: its tag name and the download URLs of
\* its assets, in the order the service lists them.
NoRelease == [tag |-> <<>>, assets |-> <<>>]

\* The asset test of formula.update, on one download URL.
AssetMatches(u, ext) ==
    LET fname == Base(u)
    IN  /\ Contains(fname, "amd64")
        /\ Contains(fname, "darwin")
        /\ HasSuffix(fname, ext)

\* A loop that keeps the last asset that passes the test.
FindLastAsset(assets, ext) ==
    LET hits == {i \in 1..Len(assets) : AssetMatches(assets[i], ext)}
    IN  IF hits = {} THEN 0 ELSE Max(hits)
\* The loop over rele.Assets of formula.update: the index of the asset it
\* returns, 0 when it falls through.
FindAsset(assets, ext) ==
    LET hits == {i \in 1..Len(assets) : AssetMatches(assets[i], ext)}
    IN  IF hits = {} THEN 0 ELSE Min(hits)

\* updateContent
updateContent(fo) ==
    Only({ Only({ [fo EXCEPT !.content =
                      IF ~fo.isURLTmpl
                      THEN replaceOne(urlReg, c2, Replacement(fo.url)) ELSE c2]
                  : c2 \in {replaceOne(shaReg, c1, Replacement(fo.sha256))} })
           : c1 \in {replaceOne(verReg, fo.content, Replacement(fo.version))} })

\* A comparison that also takes an equal version for a newer one.
NeedsUpdateOrEqual(origVer, newVer) == ~LessThan(newVer, origVer)
\* The order of the comparison that decides whether to update.
NeedsUpdate(origVer, newVer) == LessThan(origVer, newVer)

\* The remote calls of the program, as it records them in `calls`.
FetchLatest(owner, repo) == <<"GetLatestRelease", owner, repo>>
FetchByTag(owner, repo, tag) == <<"GetReleaseByTag", owner, repo, tag>>
Download(u) == <<"GET", u>>

\* A failure that makes the remote calls of the failed attempt once more.
FailedRetry(fo, e, calls) ==
    [updated |-> FALSE, err |-> e, fo |-> fo, calls |-> calls \o calls]
\* What an early return of formula.update leaves: the formula as it was,
\* the error, the remote calls made so far.
Failed(fo, e, calls) == [updated |-> FALSE, err |-> e, fo |-> fo, calls |-> calls]

\* formula.update, with what the outside world answers:
\*   fetched    GetLatestRelease succeeds, and then returns rele
\*   digest     what getSHA256FromURL returns, <<>> when it fails
\*   nameFirst  the order expandStr takes
\* The result: updated, err, the formula afterwards, the remote calls made.
update(fo, fetched, rele, digest, nameFirst) ==
    LET fetch == FetchLatest(fo.owner, fo.repo)
        fail(e, calls) == Failed(fo, e, calls)
    IN  Only({
          IF ~origVer.ok THEN fail("invalid original version", <<>>)
          ELSE IF ~fetched THEN fail("update formula failed", <<fetch>>)
          ELSE IF ~newVer.ok THEN fail("invalid original version. formula", <<fetch>>)
          ELSE IF ~NeedsUpdate(origVer, newVer) THEN fail("nil", <<fetch>>)
          ELSE Only({
            Only({
              IF ~fo.isURLTmpl /\ idx = 0
              THEN fail("no assets found from latest release", <<fetch>>)
              ELSE IF digest = <<>>
              THEN fail("faild to upload formula", <<fetch, Download(newURL)>>)
              ELSE Only({ [updated |-> TRUE, err |-> "nil",
                           fo |-> updateContent(fo1),
                           calls |-> <<fetch, Download(newURL)>>]
                          : fo1 \in {[fo EXCEPT !.version = newVerStr,
                                                !.url = newURL,
                                                !.sha256 = digest]} })
              : newURL \in {IF fo.isURLTmpl
                            THEN expandStr(fo.urlTmpl, fo.name, newVerStr, nameFirst)
                            ELSE IF idx = 0 THEN <<>> ELSE rele.assets[idx]} })
            : newVerStr \in {VerString(newVer)},
              idx \in {FindAsset(rele.assets, Ext(fo.url))} })
          : origVer \in {NewVersion(fo.version)},
            newVer \in {NewVersion(rele.tag)} })

\* ------------------------------------------------------------ creator.run
\* strings.Split(str, sep), sep one symbol
RECURSIVE Split(_, _)
Split(str, sep) ==
    LET d == Min({j \in 1..Len(str) : str[j] = sep} \cup {Len(str) + 1})
    IN  IF d > Len(str) THEN <<str>>
        ELSE <<Sub(str, 1, d - 1)>> \o Split(Sub(str, d + 1, Len(str)), sep)

\* strings.Title, then strings.Replace(.., "-", "", -1): a letter that
\* follows no letter, digit or "_" is put in upper case.
IsLetter(t) == t \in {"a", "b", "c", "r", "v", "app"}
Upper(t) ==
    CASE t = "a" -> "A" [] t = "b" -> "B" [] t = "c" -> "C" [] t = "r" -> "R"
      [] t = "v" -> "V" [] t = "app" -> "App" [] OTHER -> t
CapitalizedName(name) ==
    LET titled == [i \in 1..Len(name) |->
                     IF i = 1 \/ ~(IsLetter(name[i - 1]) \/ IsDigit(name[i - 1])
                                   \/ name[i - 1] = "_")
                     THEN Upper(name[i]) ELSE name[i]]
        keep == {i \in 1..Len(name) : name[i] # "-"}
        nth(k) == CHOOSE i \in keep : Cardinality({j \in keep : j < i}) = k - 1
    IN  [k \in 1..Cardinality(keep) |-> titled[nth(k)]]

\* The asset test of creator.run, on one download URL.
CreatorAssetMatches(u) ==
    LET fname == Base(u)
    IN  Contains(fname, "amd64") /\ Contains(fname, "darwin")

\* A loop that keeps the last asset that passes the test.
CreatorFindLastAsset(assets) ==
    LET hits == {i \in 1..Len(assets) : CreatorAssetMatches(assets[i])}
    IN  IF hits = {} THEN 0 ELSE Max(hits)
\* The loop over rele.Assets of creator.run: the index of the asset it
\* returns, 0 when it falls through.
CreatorFindAsset(assets) ==
    LET hits == {i \in 1..Len(assets) : CreatorAssetMatches(assets[i])}
    IN  IF hits = {} THEN 0 ELSE Min(hits)

\* The tag creator.run reads in what follows the "/" of the slug.
SlugTag(repoAndVer) == IF Len(repoAndVer) > 1 THEN repoAndVer[2] ELSE <<>>

\* A choice of the output that opens a file under the overwrite flag only.
OutputFileOverwriteOnly(overwrite, outFile, name) ==
    IF overwrite
    THEN (IF outFile = <<>> THEN name \o <<".rb">> ELSE outFile)
    ELSE <<>>
\* The file creator.run opens, <<>> when it writes to cr.writer.
OutputFile(overwrite, outFile, name) ==
    IF overwrite \/ outFile # <<>>
    THEN (IF outFile = <<>> THEN name \o <<".rb">> ELSE outFile)
    ELSE <<>>

NoData == [Name |-> <<>>, CapitalizedName |-> <<>>, Version |-> <<>>,
           Owner |-> <<>>, Repo |-> <<>>, SHA256 |-> <<>>, URL |-> <<>>]

\* creator.run, with what the outside world answers:
\*   fetched   the release call succeeds, and then returns rele
\*   digest    what getSHA256FromURL returns, <<>> when it fails
\*   created   os.Create succeeds
\*   written   formulaTmpl.Execute succeeds
\* The result: err, the remote calls made, the file created or truncated
\* (<<>>: none) with what was written to it, what was written to cr.writer.
RunResult(e, calls, tag, fname, data, stream) ==
    [err |-> e, calls |-> calls, tag |-> tag, file |-> fname,
     fileData |-> data, stream |-> stream]

run(slug, overwrite, outFile, fetched, rele, digest, created, written) ==
    Only({
      IF Len(ownerAndRepo) # 2
      THEN RunResult("invalid slug", <<>>, <<>>, <<>>, NoData, <<>>)
      ELSE Only({
        Only({
         Only({
          IF ~fetched
          THEN RunResult("create new formula failed", <<fetch>>, tag, <<>>, NoData, <<>>)
          ELSE IF ~ver.ok
          THEN RunResult("invalid tag name", <<fetch>>, tag, <<>>, NoData, <<>>)
          ELSE IF idx = 0
          THEN RunResult("no assets found from latest release", <<fetch>>, tag,
                         <<>>, NoData, <<>>)
          ELSE Only({
            IF digest = <<>>
            THEN RunResult("faild to create new formula", <<fetch, Download(url)>>,
                           tag, <<>>, NoData, <<>>)
            ELSE IF fname # <<>> /\ ~created
            THEN RunResult("create failed", <<fetch, Download(url)>>, tag,
                           <<>>, NoData, <<>>)
            ELSE RunResult(IF written THEN "nil" ELSE "write failed",
                           <<fetch, Download(url)>>, tag, fname,
                           IF fname # <<>> /\ written THEN nf ELSE NoData,
                           IF fname = <<>> /\ written THEN <<nf>> ELSE <<>>)
            : url \in {rele.assets[idx]},
              fname \in {OutputFile(overwrite, outFile, repo)},
              nf \in {[Name |-> repo, CapitalizedName |-> CapitalizedName(repo),
                       Version |-> VerString(ver), Owner |-> owner, Repo |-> repo,
                       SHA256 |-> digest, URL |-> rele.assets[idx]]} })
          : fetch \in {IF tag = <<>> THEN FetchLatest(owner, repo)
                       ELSE FetchByTag(owner, repo, tag)},
            ver \in {NewVersion(rele.tag)},
            idx \in {CreatorFindAsset(rele.assets)} })
        : tag \in {SlugTag(repoAndVer)},
          owner \in {ownerAndRepo[1]},
          repo \in {repoAndVer[1]} })
        : repoAndVer \in {Split(ownerAndRepo[2], "@")} })
      : ownerAndRepo \in {Split(slug, "/")} })

\* ------------------------------------------------------------- the inputs
Line(kw, q, val, rest) == <<" ", kw, " ", q>> \o val \o <<q>> \o rest

GithubRepo == <<"https://", "github.com", "/", "own", "/", "rep", "/">>

\* https://github.com/own/rep/<words joined by "_">.<ext>
AssetURL(words, ext) ==
    GithubRepo \o Flatten([i \in 1..Len(words) |->
                             IF i = 1 THEN <<words[i]>> ELSE <<"_", words[i]>>])
               \o <<".", ext>>

DarwinTgz == AssetURL(<<"app", "darwin", "amd64">>, "tgz")
DarwinZip == AssetURL(<<"app", "darwin", "amd64">>, "zip")
DarwinTgz2 == AssetURL(<<"app2", "darwin", "amd64">>, "tgz")
\* "darwin" in a directory of the URL, not in the file's name
LinuxTgz == GithubRepo \o <<"darwin", "/", "app", "_", "linux", "_", "amd64", ".", "tgz">>

\* https://github.com/own/#{name}/v#{version}.zip
TmplURL == <<"https://", "github.com", "/", "own", "/", "#{name}", "/",
             "v", "#{version}", ".", "zip">>

VerLine == Line("version", "'", <<"1", ".", "2", ".", "0">>, <<>>)
\* a quote in a trailing comment: ".*" runs to the last quote of the line
VerLineQuoted == Line("version", "'", <<"1", ".", "2", ".", "0">>, <<" ", "#", "'">>)
VerLinePre == Line("version", "\"", <<"1", ".", "3", ".", "0", "-", "r", "c">>, <<>>)
URLLine == Line("url", "\"", DarwinTgz, <<>>)
URLLineTmpl == Line("url", "'", TmplURL, <<>>)
SHALine == Line("sha256", "'", <<"h0">>, <<>>)
\* no indentation, text before the keyword: shaReg has no line anchor
SHAComment == <<"#">> \o Line("sha256", "\"", <<"h1">>, <<>>)
NameLine == <<" ", "name", " ", "=", " ", "'", "app", "'">>
NameLineRef == <<" ", "name", "=", "\"", "app", "$x", "\"">>
\* https://github.com/own/rep/v#{version}/app-#{version}.zip
TmplURLVersions == GithubRepo \o <<"v", "#{version}", "/", "app", "-", "#{version}",
                                   ".", "zip">>
URLLineVersions == Line("url", "\"", TmplURLVersions, <<>>)
\* no indentation: verReg matches it only after a line of white space
VerLineBare == <<"version", " ", "'", "1", ".", "2", ".", "0", "'">>

LineSet == {VerLine, VerLineQuoted, URLLine, URLLineTmpl, SHALine, SHAComment, NameLine}

\* The text of a file of these lines.
FileOf(lines) == Flatten([i \in 1..Len(lines) |-> lines[i] \o <<"\n">>])

Files == {FileOf(ls) : ls \in SeqsUpTo(LineSet, MaxLines)}

\* Formula files as the program's users write them.
CoreFiles ==
    { FileOf(<<VerLine, URLLine, SHALine>>),
      FileOf(<<VerLinePre, URLLine, SHALine>>),
      FileOf(<<VerLineQuoted, URLLine, SHALine>>),
      FileOf(<<NameLine, VerLine, URLLineTmpl, SHALine>>),
      FileOf(<<NameLineRef, VerLine, URLLineTmpl, SHALine>>),
      FileOf(<<VerLinePre, URLLineVersions, SHALine>>),
      FileOf(<<VerLine, URLLineTmpl, SHALine>>),
      FileOf(<<<<>>, VerLineBare, URLLine, SHAComment>>) }

Assets == {DarwinTgz, DarwinZip, DarwinTgz2, LinuxTgz}

Tags ==
    { <<"v", "1", ".", "3", ".", "0">>,
      <<"1", ".", "2", ".", "0">>,
      <<"v", "1", ".", "3", ".", "0", "-", "r", "c">>,
      <<"1", ".", "3", ".", "0", "-", "r", "c", ".", "1">>,
      <<"1", ".", "3", ".", "0", "-", "1", "0">>,
      <<"1", ".", "3", "-", "b", "+", "b">>,
      <<"1", ".", "1">>,
      <<"r", "c">> }

\* A release lists each of its assets once.
AssetLists ==
    {l \in SeqsUpTo(Assets, MaxAssets) :
        \A i, j \in 1..Len(l) : i # j => l[i] # l[j]}

Releases == [tag : Tags, assets : AssetLists]

\* The releases the runs over all files meet.
FewReleases ==
    { [tag |-> <<"v", "1", ".", "3", ".", "0">>, assets |-> <<DarwinZip, DarwinTgz2>>],
      [tag |-> <<"2", ".", "0", "-", "r", "c">>, assets |-> <<DarwinTgz>>] }

Digests == {<<"h1">>, <<"h2">>}

\* Slugs: words with "/" or "@" between each two.
SlugWords == {<<"app">>, <<"v", "2">>}

RECURSIVE Join(_, _)
Join(words, seps) ==
    IF Len(words) = 1 THEN words[1]
    ELSE words[1] \o <<seps[1]>> \o Join(Tail(words), Tail(seps))

OutFiles == {<<>>, <<"out.rb">>}

\* The releases of the repository the creator asks about.
CreatorTags == SlugWords \cup {<<"1", ".", "3", "-", "r", "c">>}
CreatorReleases == [tag : CreatorTags, assets : AssetLists]

\* ------------------------------------------------------------------ state
VARIABLES
    file,     \* the text of the formula file on disk
    fo,       \* the formula newFormula returned (NoFormula before it did)
    pre,      \* fo as it was when the call that has just returned started
    res,      \* the call that has just returned: what it met, what it returned
    last,     \* the tag of the release the last successful update met
    creator,  \* the creator: slug, overwrite, outFile
    cr        \* the run of the creator that has just returned

vars == <<file, fo, pre, res, last, creator, cr>>

NoRes == [op |-> "none", fetched |-> FALSE, rele |-> NoRelease, digest |-> <<>>,
          nameFirst |-> TRUE, again |-> FALSE, updated |-> FALSE, err |-> "nil",
          calls |-> <<>>]

NoRun == [op |-> "none", fetched |-> FALSE, rele |-> NoRelease, digest |-> <<>>,
          created |-> FALSE, written |-> FALSE, err |-> "nil", calls |-> <<>>,
          tag |-> <<>>, file |-> <<>>, fileData |-> NoData, stream |-> <<>>]

\* The creator as main builds it: the slug and the output flags.
NoCreator == [slug |-> <<>>, overwrite |-> FALSE, outFile |-> <<>>]

\* newFormula(file)
Load ==
    /\ res.op = "none"
    /\ \E nameFirst \in BOOLEAN :
        \E r \in {newFormula(file, nameFirst)} :
            /\ nameFirst \/ (r.err = "nil" /\ r.fo.isURLTmpl)
            /\ fo' = r.fo
            /\ pre' = fo
            /\ res' = [NoRes EXCEPT !.op = "load", !.err = r.err,
                                    !.nameFirst = nameFirst]
            /\ last' = <<>>
            /\ UNCHANGED <<file, creator, cr>>

\* fo.update(ghcli), on a formula that newFormula returned.  What the call
\* did not come to read is recorded as absent.
UpdateFrom(rels) ==
    /\ res.op = "none"
    /\ fo # NoFormula
    /\ \E fetched \in BOOLEAN, rele \in rels \cup {NoRelease},
          d \in Digests \cup {<<>>}, nameFirst \in BOOLEAN :
        /\ fetched <=> rele # NoRelease
        /\ ~fetched => d = <<>>
        /\ (~fetched \/ ~fo.isURLTmpl \/ d = <<>>) => nameFirst
        /\ \E r \in {update(fo, fetched, rele, d, nameFirst)} :
            /\ Len(r.calls) < 2 => (d = <<>> /\ nameFirst)
            /\ fo' = r.fo
            /\ pre' = fo
            /\ res' = [op |-> "update", fetched |-> fetched, rele |-> rele,
                       digest |-> d, nameFirst |-> nameFirst,
                       again |-> fetched /\ last = rele.tag,
                       updated |-> r.updated, err |-> r.err, calls |-> r.calls]
            /\ last' = IF r.updated THEN rele.tag ELSE last
            /\ UNCHANGED <<file, creator, cr>>

UpdateFew == UpdateFrom(FewReleases)
UpdateAny == UpdateFrom(Releases)

\* The call returns: its caller has the result.
Return ==
    /\ res.op # "none"
    /\ res' = NoRes
    /\ pre' = NoFormula
    /\ UNCHANGED <<file, fo, last, creator, cr>>

Init ==
    /\ file \in Files
    /\ fo = NoFormula
    /\ pre = NoFormula
    /\ res = NoRes
    /\ last = <<>>
    /\ creator = NoCreator
    /\ cr = NoRun

Next == Load \/ UpdateFew \/ Return

\* Every file of at most MaxLines lines, against a few releases.
Spec == Init /\ [][Next]_vars

InitUpdate ==
    /\ file \in CoreFiles
    /\ fo = NoFormula
    /\ pre = NoFormula
    /\ res = NoRes
    /\ last = <<>>
    /\ creator = NoCreator
    /\ cr = NoRun

NextUpdate == Load \/ UpdateAny \/ Return

\* The users' files, against every release.
SpecUpdate == InitUpdate /\ [][NextUpdate]_vars

\* cr.run(), once.  A release asked for by its tag carries that tag.  What
\* the run did not come to read is recorded as absent.
Run ==
    /\ cr.op = "none"
    /\ \E fetched \in BOOLEAN, rele \in CreatorReleases \cup {NoRelease},
          d \in Digests \cup {<<>>}, created \in BOOLEAN, written \in BOOLEAN :
        /\ fetched <=> rele # NoRelease
        /\ ~fetched => d = <<>>
        /\ d = <<>> => (~created /\ ~written)
        /\ ~created => ~written
        /\ \E r \in {run(creator.slug, creator.overwrite, creator.outFile,
                          fetched, rele, d, created, written)} :
            /\ r.calls = <<>> => ~fetched
            /\ (fetched /\ r.tag # <<>>) => rele.tag = r.tag
            /\ Len(r.calls) < 2 => d = <<>>
            /\ (d # <<>> /\ OutputFile(creator.overwrite, creator.outFile, <<>>) = <<>>)
                  => created
            /\ cr' = [op |-> "run", fetched |-> fetched, rele |-> rele,
                      digest |-> d, created |-> created, written |-> written,
                      err |-> r.err, calls |-> r.calls, tag |-> r.tag,
                      file |-> r.file, fileData |-> r.fileData,
                      stream |-> r.stream]
            /\ UNCHANGED <<file, fo, pre, res, last, creator>>

\* The run returns: main has its error.
ReturnRun ==
    /\ cr.op # "none"
    /\ cr' = NoRun
    /\ UNCHANGED <<file, fo, pre, res, last, creator>>

InitCreate ==
    /\ file = <<>>
    /\ fo = NoFormula
    /\ pre = NoFormula
    /\ res = NoRes
    /\ last = <<>>
    /\ \E n \in 1..MaxWords :
         \E w \in [1..n -> SlugWords], sp \in [1..(n - 1) -> {"/", "@"}],
            ow \in BOOLEAN, outf \in OutFiles :
            creator = [slug |-> Join(w, sp), overwrite |-> ow, outFile |-> outf]
    /\ cr = NoRun

NextCreate == Run \/ ReturnRun

\* The creator, on every slug of at most MaxWords words.
SpecCreate == InitCreate /\ [][NextCreate]_vars

\* ================================================================ claims
\* No remote call is made twice.
NoRepeat(calls) == \A i, j \in 1..Len(calls) : calls[i] = calls[j] => i = j

\* The update that has just returned met a release newer than the formula.
MetNewer ==
    /\ res.op = "update" /\ res.fetched
    /\ NewVersion(pre.version).ok /\ NewVersion(res.rele.tag).ok
    /\ Compare(NewVersion(pre.version), NewVersion(res.rele.tag)) < 0

\* C1: when the tag of the latest release is, by semantic-version
\* comparison, equal to or lower than the current version of the formula,
\* update returns updated = false and no error, and the content, version,
\* URL and checksum of the formula are what they were.
C1_NotNewerNoUpdate ==
    (/\ res.op = "update" /\ res.fetched
     /\ NewVersion(pre.version).ok /\ NewVersion(res.rele.tag).ok
     /\ Compare(NewVersion(res.rele.tag), NewVersion(pre.version)) <= 0)
    => (~res.updated /\ res.err = "nil" /\ fo = pre)

\* An update met a release of the very version of the formula.
C1_Witness ==
    /\ res.op = "update" /\ res.fetched /\ ~res.updated /\ res.err = "nil"
    /\ NewVersion(pre.version).ok /\ NewVersion(res.rele.tag).ok
    /\ Compare(NewVersion(res.rele.tag), NewVersion(pre.version)) = 0
    /\ fo = pre

\* The positions of the assets a formula of extension ext can take: the
\* file's name holds amd64 and darwin and ends with ext.
C4_Hits(assets, ext) ==
    {i \in 1..Len(assets) :
        /\ \E k \in 1..Len(Base(assets[i])) : Base(assets[i])[k] = "amd64"
        /\ \E k \in 1..Len(Base(assets[i])) : Base(assets[i])[k] = "darwin"
        /\ Len(Base(assets[i])) >= Len(ext)
        /\ \A k \in 1..Len(ext) :
              Base(assets[i])[Len(Base(assets[i])) - Len(ext) + k] = ext[k]}

\* C4: a formula whose URL is no template takes, of a newer release, the
\* first asset in release order whose file name holds amd64 and darwin and
\* ends with the extension of the current URL: it is the one downloaded and
\* the new URL; with no such asset update returns updated = false and an
\* error.
C4_FirstMatchingAsset ==
    (MetNewer /\ ~pre.isURLTmpl)
    => \E hits \in {C4_Hits(res.rele.assets, Ext(pre.url))} :
          IF hits = {}
          THEN ~res.updated /\ res.err # "nil" /\ fo = pre
          ELSE \E i \in hits :
                  /\ \A j \in hits : i <= j
                  /\ Len(res.calls) = 2
                  /\ res.calls[2] = Download(res.rele.assets[i])
                  /\ res.updated => fo.url = res.rele.assets[i]

\* An update chose between two assets that both pass the test.
C4_Witness ==
    /\ MetNewer /\ ~pre.isURLTmpl /\ res.updated
    /\ Cardinality(C4_Hits(res.rele.assets, Ext(pre.url))) = 2
    /\ fo.url = res.rele.assets[1]

\* The step update fails at, "none" when no step fails: the parse of the
\* current version, the fetch, the parse of the tag, the choice of the
\* asset, the download.
C5_FailingStep ==
    IF ~NewVersion(pre.version).ok THEN "current"
    ELSE IF ~res.fetched THEN "fetch"
    ELSE IF ~NewVersion(res.rele.tag).ok THEN "tag"
    ELSE IF ~MetNewer THEN "none"
    ELSE IF ~pre.isURLTmpl /\ C4_Hits(res.rele.assets, Ext(pre.url)) = {} THEN "asset"
    ELSE IF res.digest = <<>> THEN "download"
    ELSE "none"

\* C5: a failure of update at any step (the current version or the tag
\* does not parse, the fetch fails, no asset matches, the download fails)
\* ends the call: the error is returned with updated = false, no remote
\* call is made twice, no call of a later step is made, and the formula is
\* what it was.
C5_FailureIsTerminal ==
    res.op = "update"
    => /\ C5_FailingStep # "none"
            => /\ res.err # "nil" /\ ~res.updated /\ fo = pre
               /\ NoRepeat(res.calls)
               /\ Len(res.calls) = (CASE C5_FailingStep = "current" -> 0
                                      [] C5_FailingStep = "download" -> 2
                                      [] OTHER -> 1)
               /\ \A i \in 1..Len(res.calls) :
                     res.calls[i][1] = (IF i = 1 THEN "GetLatestRelease" ELSE "GET")
       /\ res.err # "nil" => (C5_FailingStep # "none" /\ ~res.updated /\ fo = pre)

\* An update failed at its last step, the download.
C5_Witness ==
    /\ res.op = "update" /\ C5_FailingStep = "download"
    /\ res.err = "faild to upload formula" /\ Len(res.calls) = 2 /\ fo = pre

\* C10: an update against the release the last successful update met
\* (plain, pre-release or build-metadata tag) returns updated = false and
\* leaves the content as it is; and no update lowers the version.
C10_Idempotent ==
    res.op = "update"
    => /\ res.again => (~res.updated /\ res.err = "nil" /\ fo = pre)
       /\ NewVersion(pre.version).ok
            => /\ NewVersion(fo.version).ok
               /\ Compare(NewVersion(fo.version), NewVersion(pre.version)) >= 0

\* A second update met the pre-release tag the first one had stripped.
C10_Witness ==
    /\ res.op = "update" /\ res.again /\ ~res.updated
    /\ NewVersion(res.rele.tag).pre # <<>>
    /\ Compare(NewVersion(res.rele.tag), NewVersion(fo.version)) < 0

\* The literal substitution of v for every occurrence of the symbol k.
RECURSIVE C3_Subst(_, _, _)
C3_Subst(str, k, v) ==
    IF str = <<>> THEN <<>>
    ELSE (IF Head(str) = k THEN v ELSE <<Head(str)>>) \o C3_Subst(Tail(str), k, v)

\* A name without the "$" references it holds.
RECURSIVE C3_Plain(_)
C3_Plain(name) ==
    IF name = <<>> THEN <<>>
    ELSE (IF Head(name) \in {"$x", "${1}", "${3}"} THEN <<>> ELSE <<Head(name)>>)
         \o C3_Plain(Tail(name))

\* The update that has just returned rewrote a formula whose URL is a
\* template: the URL it took, the download and the URL assignment of the
\* content, for the URL `expected`.
C3_Took(expected) ==
    /\ Len(res.calls) = 2
    /\ res.calls[2] = Download(expected)
    /\ res.updated => /\ fo.url = expected
                      /\ fo.urlTmpl = pre.urlTmpl
                      /\ FindFrom(urlReg, fo.content, 1).ok
                      /\ FindStringSubmatch(urlReg, fo.content)
                            = FindStringSubmatch(urlReg, pre.content)

\* C3 as the specification states it: the new URL of a template formula is
\* the template with the version placeholder replaced by the new version,
\* and nothing else replaced.
C3_VersionOnly ==
    (MetNewer /\ pre.isURLTmpl)
    => C3_Took(C3_Subst(pre.urlTmpl, "#{version}",
                        VerString(NewVersion(res.rele.tag))))

\* C3: the new URL of a template formula is the template with every
\* #{version} replaced by the new major.minor.patch version and every
\* #{name} by the name of the formula without its "$" references; it is
\* the URL downloaded, whatever the assets of the release, and the URL
\* assignment of the content stays as it is.
C3_TemplateURL ==
    (MetNewer /\ pre.isURLTmpl)
    => C3_Took(C3_Subst(C3_Subst(pre.urlTmpl, "#{version}",
                                 VerString(NewVersion(res.rele.tag))),
                        "#{name}", C3_Plain(pre.name)))

\* A template that names the formula was expanded for a release that has
\* no asset.
C3_Witness ==
    /\ MetNewer /\ pre.isURLTmpl /\ res.updated
    /\ \E k \in 1..Len(pre.urlTmpl) : pre.urlTmpl[k] = "#{name}"
    /\ pre.name # <<>>
    /\ res.rele.assets = <<>>
    /\ fo.url # pre.url

\* The content c with, for each n, the text between the quotes of the
\* assignment spans[n] replaced by vals[n], and every other symbol kept.
C2_Rewrite(c, spans, vals) ==
    Flatten([i \in 1..Len(c) |->
        (IF \E n \in DOMAIN spans : spans[n].q3 = i
         THEN vals[CHOOSE n \in DOMAIN spans : spans[n].q3 = i] ELSE <<>>)
        \o (IF \E n \in DOMAIN spans : spans[n].q1 < i /\ i < spans[n].q3
            THEN <<>> ELSE <<c[i]>>)])

\* C2: an update that meets a newer release and fails at no step returns
\* updated = true, and the new content is the old one with the value of
\* the first version assignment replaced by the new major.minor.patch
\* version, the value of the first sha256 assignment by the new digest
\* and, unless the URL is a template, the value of the first url
\* assignment by the new URL; every other symbol is as it was.
C2_OnlyFirstValues ==
    (MetNewer /\ res.err = "nil")
    => /\ res.updated
       /\ \E mv \in {FindFrom(verReg, pre.content, 1)},
             ms \in {FindFrom(shaReg, pre.content, 1)},
             mu \in {FindFrom(urlReg, pre.content, 1)} :
            /\ mv.ok /\ ms.ok /\ mu.ok
            /\ fo.content =
                 C2_Rewrite(pre.content,
                            IF pre.isURLTmpl THEN <<mv, ms>> ELSE <<mv, ms, mu>>,
                            <<VerString(NewVersion(res.rele.tag)), res.digest,
                              fo.url>>)

\* An update rewrote a content that assigns the URL twice.
C2_Witness ==
    /\ MetNewer /\ res.updated /\ ~pre.isURLTmpl
    /\ CountFrom(urlReg, pre.content, 1) = 2
    /\ fo.content # pre.content
    /\ CountFrom(urlReg, fo.content, 1) = 2

\* The numbers of version, checksum and URL assignments of the file.
C6_Counts ==
    <<CountFrom(verReg, file, 1), CountFrom(shaReg, file, 1),
      CountFrom(urlReg, file, 1)>>

\* The value of the first assignment of a kind in the file.
C6_First(reg) ==
    Sub(file, FindFrom(reg, file, 1).q1 + 1, FindFrom(reg, file, 1).q3 - 1)

\* C6 as the specification states it: a load succeeds only if the file
\* holds exactly one version, one checksum and one URL assignment.
C6_ExactlyOne ==
    (res.op = "load" /\ res.err = "nil")
    => \A n \in 1..3 : C6_Counts[n] = 1

\* C6: a load succeeds only if the file holds at least one version, one
\* checksum and one URL assignment; with none of a kind it fails with the
\* error of that kind; of several assignments of a kind the first is the
\* one read.
C6_AtLeastOne ==
    res.op = "load"
    => /\ (\E n \in 1..3 : C6_Counts[n] = 0)
            <=> res.err \in {"no version detected", "no sha256 detected",
                             "no url detected"}
       /\ res.err = "nil"
            => /\ \A n \in 1..3 : C6_Counts[n] >= 1
               /\ fo.content = file
               /\ fo.version = C6_First(verReg)
               /\ fo.sha256 = C6_First(shaReg)
               /\ fo.urlTmpl = C6_First(urlReg)

\* A file that assigns the version twice was loaded.
C6_Witness ==
    /\ res.op = "load" /\ res.err = "nil"
    /\ C6_Counts[1] = 2
    /\ fo.version = C6_First(verReg)

\* The positions of "/" in the slug, and of "@" after position p.
C7_Slashes == {i \in 1..Len(creator.slug) : creator.slug[i] = "/"}
C7_Ats(p) == {i \in (p + 1)..Len(creator.slug) : creator.slug[i] = "@"}

\* What the run asked the hosting service first, for the owner before the
\* "/" at p, and the repository and the tag split around the "@" at a
\* (a = 0: no tag), the tag ending before position e.
C7_Asked(p, a, e) ==
    /\ cr.err # "invalid slug"
    /\ Len(cr.calls) >= 1
    /\ IF a = 0
       THEN /\ cr.tag = <<>>
            /\ cr.calls[1] = FetchLatest(Sub(creator.slug, 1, p - 1),
                                         Sub(creator.slug, p + 1, Len(creator.slug)))
       ELSE /\ cr.tag = Sub(creator.slug, a + 1, e - 1)
            /\ cr.calls[1] = FetchByTag(Sub(creator.slug, 1, p - 1),
                                        Sub(creator.slug, p + 1, a - 1),
                                        Sub(creator.slug, a + 1, e - 1))

\* C7: "owner/repo" gives the empty tag and asks for the latest release;
\* "owner/repo@tag" gives the tag that follows the "@" and asks for the
\* release of exactly that tag; a slug that does not split in two around
\* "/" fails with the invalid-slug error before any fetch.
C7_SlugParse ==
    cr.op = "run"
    => IF Cardinality(C7_Slashes) # 1
       THEN cr.err = "invalid slug" /\ cr.calls = <<>>
       ELSE \E p \in C7_Slashes :
              IF C7_Ats(p) = {} THEN C7_Asked(p, 0, 0)
              ELSE C7_Asked(p, Min(C7_Ats(p)), Len(creator.slug) + 1)

\* A run read, of a slug owner/repo@tag whose tag holds an "@", a tag that
\* stops at that "@".
C7_Witness ==
    /\ cr.op = "run" /\ Cardinality(C7_Slashes) = 1
    /\ \E p \in C7_Slashes :
          /\ Cardinality(C7_Ats(p)) = 2
          /\ cr.tag = Sub(creator.slug, Min(C7_Ats(p)) + 1, Max(C7_Ats(p)) - 1)
          /\ cr.tag # Sub(creator.slug, Min(C7_Ats(p)) + 1, Len(creator.slug))
    /\ cr.calls # <<>> /\ cr.calls[1][1] = "GetReleaseByTag"

\* The positions of the assets the creator can take: the file's name holds
\* darwin and amd64.
C8_Hits(assets) ==
    {i \in 1..Len(assets) :
        /\ \E k \in 1..Len(Base(assets[i])) : Base(assets[i])[k] = "darwin"
        /\ \E k \in 1..Len(Base(assets[i])) : Base(assets[i])[k] = "amd64"}

\* What the run wrote, <<>> when it wrote nothing.
C8_Written == IF cr.fileData # NoData THEN <<cr.fileData>> ELSE cr.stream

\* C8: of a release whose tag parses, the creator takes the first asset in
\* release order whose file name holds darwin and amd64: it is the one
\* downloaded and the URL written; with no such asset the run fails with
\* the no-assets error, and downloads and writes nothing.
C8_FirstDarwinAmd64 ==
    (cr.op = "run" /\ cr.fetched /\ NewVersion(cr.rele.tag).ok)
    => \E hits \in {C8_Hits(cr.rele.assets)} :
          IF hits = {}
          THEN /\ cr.err = "no assets found from latest release"
               /\ Len(cr.calls) = 1 /\ cr.calls[1][1] # "GET"
               /\ cr.file = <<>> /\ C8_Written = <<>>
          ELSE \E i \in hits :
                  /\ \A j \in hits : i <= j
                  /\ Len(cr.calls) = 2
                  /\ cr.calls[2] = Download(cr.rele.assets[i])
                  /\ \A n \in 1..Len(C8_Written) :
                        /\ C8_Written[n].URL = cr.rele.assets[i]
                        /\ C8_Written[n].SHA256 = cr.digest

\* A run chose between two assets that both pass the test.
C8_Witness ==
    /\ cr.op = "run" /\ cr.err = "nil"
    /\ Cardinality(C8_Hits(cr.rele.assets)) = 2
    /\ C8_Written # <<>> /\ C8_Written[1].URL = cr.rele.assets[1]

\* The name of the repository in a slug that has one "/": what stands
\* between the "/" and the first "@" after it.
C9_Repo ==
    Only({ Sub(creator.slug, p + 1, Min(C7_Ats(p) \cup {Len(creator.slug) + 1}) - 1)
           : p \in C7_Slashes })

\* C9: the creator creates or truncates a file, or writes to its stream,
\* only after the slug was parsed, the release fetched, its tag parsed, an
\* asset found and the checksum computed; a run without error has written
\* the formula to the file outFile, or <repo>.rb when outFile is empty, if
\* overwrite is set or outFile is given, and to the stream otherwise.
C9_OutputAfterAllSteps ==
    cr.op = "run"
    => /\ (cr.file # <<>> \/ cr.fileData # NoData \/ cr.stream # <<>>)
            => /\ Cardinality(C7_Slashes) = 1
               /\ cr.fetched /\ NewVersion(cr.rele.tag).ok
               /\ C8_Hits(cr.rele.assets) # {}
               /\ cr.digest # <<>>
               /\ Len(cr.calls) = 2
       /\ cr.err = "nil"
            => IF creator.overwrite \/ creator.outFile # <<>>
               THEN /\ cr.file = (IF creator.outFile # <<>> THEN creator.outFile
                                  ELSE C9_Repo \o <<".rb">>)
                    /\ cr.fileData # NoData /\ cr.fileData.SHA256 = cr.digest
                    /\ cr.stream = <<>>
               ELSE /\ cr.file = <<>> /\ cr.fileData = NoData
                    /\ Len(cr.stream) = 1 /\ cr.stream[1].SHA256 = cr.digest

\* A run wrote the file named after the repository: overwrite is set and
\* no output file is given.
C9_Witness ==
    /\ cr.op = "run" /\ cr.err = "nil"
    /\ creator.overwrite /\ creator.outFile = <<>>
    /\ cr.file = C9_Repo \o <<".rb">> /\ cr.fileData.Name = C9_Repo

=============================================================================
